---- MODULE Spec2Model ----
(***************************************************************************)
(* Budget Distribution & Forecast Engine of project_visualization_app.py.  *)
(*                                                                         *)
(* calculate_approved_budget(df, rule_name) is modelled as a state machine *)
(* whose steps are the phases of the function: the column check, the       *)
(* coercion and validity filter, the grouping, one iteration of the loop   *)
(* over the groups, and the return.  The loop locals (group_df, months,    *)
(* monthly_budgets, the three percents) are state variables, so that the   *)
(* properties of the period generator, the aggregator and the rule engine  *)
(* can be stated on them.  calculate_forecast_budget(df, edited_data,      *)
(* rule_name) wraps such a call between two steps of its own: the choice   *)
(* and copy of the table it works on, and the relabelling of the result.   *)
(*                                                                         *)
(* Representation:                                                         *)
(*  - a DataFrame is [columns |-> set of column names, rows |-> sequence   *)
(*    of rows], a row being a function from the column names to cells;     *)
(*  - a Timestamp is [year, month, day, hour] (hour resolution), NaT is a  *)
(*    Timestamp of year 0;                                                 *)
(*  - a number cell is [num |-> n], NaN is [nan |-> TRUE], a cell holding  *)
(*    text that does not parse is [text |-> ...];                          *)
(*  - the values of the grouping columns are names, "NaN" standing for a   *)
(*    missing value;                                                       *)
(*  - shares and allocated amounts are exact fractions [num, den];         *)
(*  - a table object made from another one is [data |-> its contents,      *)
(*    shares_data |-> whether a write to it reaches the other one].        *)
(*                                                                         *)
(* A behaviour is one call of either function.  The calls are drawn from   *)
(* families of tables of at most MaxRows rows: tasks over instants around  *)
(* a year boundary, tasks more than a year apart, rows that the validity   *)
(* filter rejects, rows that differ in the grouping columns (every subset  *)
(* of which may be present), tables that lack required columns, tasks that *)
(* start later in the day than they end, the two documented examples, and  *)
(* pairs of an original and an optional edited table.                      *)
(***************************************************************************)
EXTENDS Integers, Sequences, FiniteSets, TLC

VARIABLES df, requested_rule, rule_name, pc, work_df, grouping_cols, grouped, group_key,
          group_df, months, monthly_budgets, first_month_percent,
          middle_months_percent, last_month_percent, approved_budget_rows,
          result,
          called, forecast_df, edited_data, forecast_work_df, forecast_result,
          invocations, row_lists,
          data, selected_project, session_state, widget_state, keyed_identity,
          forecast_input, forecast_shown, reloads,
          users, password_reset_tokens, now, issued, reset_calls, last_call, consumed

vars == <<df, requested_rule, rule_name, pc, work_df, grouping_cols, grouped, group_key,
          group_df, months, monthly_budgets, first_month_percent,
          middle_months_percent, last_month_percent, approved_budget_rows,
          result,
          called, forecast_df, edited_data, forecast_work_df, forecast_result,
          invocations, row_lists,
          data, selected_project, session_state, widget_state, keyed_identity,
          forecast_input, forecast_shown, reloads,
          users, password_reset_tokens, now, issued, reset_calls, last_call, consumed>>

\* The variables of the interleaved invocations: the frame of each invocation
\* and the lists that the invocations have created.
concurrent_vars == <<invocations, row_lists>>

\* The variables of the forecast dashboard: the loaded table, the selection,
\* Streamlit's session state and widget state, and what the last run computed.
dashboard_vars ==
    <<data, selected_project, session_state, widget_state, keyed_identity,
      forecast_input, forecast_shown, reloads>>

\* The variables of auth.py: the two database tables, the clock, and the calls.
auth_vars == <<users, password_reset_tokens, now, issued, reset_calls, last_call, consumed>>

\* The variables that a step of the single call leaves alone.
outside_call == <<concurrent_vars, dashboard_vars, auth_vars>>

\* No invocations are interleaved.
ConcurrentIdle == invocations = <<>> /\ row_lists = <<>>

\* The dashboard is not shown.
DashboardIdle ==
    /\ data = <<>>
    /\ selected_project = <<>>
    /\ session_state = <<>>
    /\ widget_state = <<>>
    /\ keyed_identity = FALSE
    /\ forecast_input = <<>>
    /\ forecast_shown = <<>>
    /\ reloads = 0

\* No call of auth.py is made.
AuthIdle ==
    /\ users = <<>>
    /\ password_reset_tokens = {}
    /\ now = 0
    /\ issued = 0
    /\ reset_calls = <<>>
    /\ last_call = <<>>
    /\ consumed = {}

\* The variables of the frame of calculate_forecast_budget: the function the
\* caller invoked, its arguments df and edited_data, its local work_df and what
\* it returned.
forecast_frame == <<called, forecast_df, edited_data, forecast_work_df, forecast_result>>

\* Largest number of rows of an input table.
MaxRows == 2

-----------------------------------------------------------------------------
(* Cells *)

Ts(y, m, d, h) == [year |-> y, month |-> m, day |-> d, hour |-> h]

NaT == Ts(0, 0, 0, 0)

Num(n) == [num |-> n]

NaN == [nan |-> TRUE]

\* A cell whose text is neither a date nor a number.
BadText == [text |-> "n/a"]

\* A missing value (NaN) of a grouping column; the other values are names.
NA == "NaN"

\* Series.notna() of a date or number column.
notna(c) == c # NaT /\ c # NaN

\* pd.to_datetime(..., errors="coerce"): what does not parse becomes NaT.
to_datetime(c) == IF c = BadText \/ c = NaN THEN NaT ELSE c

\* pd.to_numeric(..., errors="coerce"): what does not parse becomes NaN.
to_numeric(c) == IF c = BadText THEN NaN ELSE c

\* Timestamp comparison; every comparison with NaT is False.
TsLE(a, b) ==
    /\ a # NaT
    /\ b # NaT
    /\ \/ a.year < b.year
       \/ a.year = b.year /\ a.month < b.month
       \/ a.year = b.year /\ a.month = b.month /\ a.day < b.day
       \/ a.year = b.year /\ a.month = b.month /\ a.day = b.day /\ a.hour <= b.hour

\* Timestamp.replace(day=1): every other field, the time of day included, is kept.
replace_day1(t) == [t EXCEPT !.day = 1]

\* Timestamp.to_period("M")
to_period(t) == [year |-> t.year, month |-> t.month]

days_in_month(y, m) ==
    IF m \in {4, 6, 9, 11} THEN 30
    ELSE IF m # 2 THEN 31
    ELSE IF (y % 4 = 0 /\ y % 100 # 0) \/ y % 400 = 0 THEN 29 ELSE 28

\* Period.start_time: the first instant of the month.
start_time(p) == Ts(p.year, p.month, 1, 0)

\* Period.end_time: the last instant of the month.
end_time(p) == Ts(p.year, p.month, days_in_month(p.year, p.month), 23)

-----------------------------------------------------------------------------
(* Exact fractions *)

Frac(n, d) == [num |-> n, den |-> d]

FracAdd(a, b) ==
    IF a.den = b.den THEN Frac(a.num + b.num, a.den)
    ELSE Frac(a.num * b.den + b.num * a.den, a.den * b.den)

FracDiv(a, n) == Frac(a.num, a.den * n)

FracScale(n, a) == Frac(n * a.num, a.den)

FracEq(a, b) == a.num * b.den = b.num * a.den

-----------------------------------------------------------------------------
(* Sequences *)

Range(s) == {s[i] : i \in 1..Len(s)}

IndexOf(s, x) == CHOOSE i \in 1..Len(s) : s[i] = x

-----------------------------------------------------------------------------
(* The rule registry, lines 8239-8251 *)

budget_rules ==
    "default" :> [first_month_percent |-> Frac(50, 100),
                  middle_months_percent |-> Frac(45, 100),
                  last_month_percent |-> Frac(5, 100)]

\* An unknown rule name falls back to "default".
resolve_rule(name) == IF name \notin DOMAIN budget_rules THEN "default" ELSE name

-----------------------------------------------------------------------------
(* Column check, coercion and validity filter, lines 8253-8285 *)

required_cols == <<"budget plan", "plan start", "plan end">>

None == <<>>

EmptyFrame == <<>>

\* missing_cols that stops at the first missing column.
missing_cols_first(d) ==
    LET all == SelectSeq(required_cols, LAMBDA col : col \notin d.columns)
    IN  IF all = <<>> THEN <<>> ELSE <<all[1]>>

\* The required columns the table lacks, lines 8254-8255.
missing_cols(d) == SelectSeq(required_cols, LAMBDA col : col \notin d.columns)

\* The message names the missing columns.
SchemaError(missing) == <<"missing required columns">> \o missing

NoValidDataError == <<"no rows with valid dates and budget">>

\* The empty result returned without a message.
NoRowsMessageOmitted == None

\* The message of lines 8428-8429, returned when the loop has emitted no row.
NoRowsError == <<"no data to calculate the approved budget">>

\* A second name for the table d in place of a copy: a write to it reaches d.
copy_shared(d) == [data |-> d, shares_data |-> TRUE]

\* DataFrame.copy(): a new object with the contents of d; a write to it does
\* not reach d.
copy(d) == [data |-> d, shares_data |-> FALSE]

coerce(r) ==
    [col \in DOMAIN r |->
        IF col \in {"plan start", "plan end"} THEN to_datetime(r[col])
        ELSE IF col = "budget plan" THEN to_numeric(r[col])
        ELSE r[col]]

\* The table after the three column assignments of the coercion.
coerced(d) == [d EXCEPT !.rows = [i \in 1..Len(d.rows) |-> coerce(d.rows[i])]]

\* valid_mask without the test that the start is not after the end.
valid_mask_unordered(r) ==
    /\ notna(r["plan start"])
    /\ notna(r["plan end"])
    /\ notna(r["budget plan"])
    /\ r["budget plan"].num > 0

\* valid_mask without the test that the budget is positive.
valid_mask_any_budget(r) ==
    /\ notna(r["plan start"])
    /\ notna(r["plan end"])
    /\ notna(r["budget plan"])
    /\ TsLE(r["plan start"], r["plan end"])

valid_mask(r) ==
    /\ notna(r["plan start"])
    /\ notna(r["plan end"])
    /\ notna(r["budget plan"])
    /\ r["budget plan"].num > 0
    /\ TsLE(r["plan start"], r["plan end"])

\* work_df after the filter: the coerced rows that pass valid_mask, in input order.
filter_valid(d) ==
    SelectSeq([i \in 1..Len(d.rows) |-> coerce(d.rows[i])], valid_mask)

-----------------------------------------------------------------------------
(* Grouping, lines 8287-8311 *)

key_cols == <<"project name", "section", "task name">>

\* The sort order of the names that occur as values of the grouping columns.
Collation == <<"P1", "P2", "S1", "S2", "T1", "T2", "all">>

grouping_cols_of(columns) ==
    LET present == SelectSeq(key_cols, LAMBDA col : col \in columns)
    IN  IF present = <<>> THEN <<"_group">> ELSE present

\* work_df["_group"] = "all" when no grouping column is present.
with_group_col(rows, columns) ==
    IF SelectSeq(key_cols, LAMBDA col : col \in columns) = <<>>
    THEN [i \in 1..Len(rows) |-> rows[i] @@ ("_group" :> "all")]
    ELSE rows

key_of(r, cols) == [i \in 1..Len(cols) |-> r[cols[i]]]

KeyLT(a, b) ==
    \E i \in 1..Len(a) :
        /\ \A j \in 1..(i - 1) : a[j] = b[j]
        /\ a[i] # b[i]
        /\ IndexOf(Collation, a[i]) < IndexOf(Collation, b[i])

RECURSIVE sort_keys(_)
sort_keys(S) ==
    IF S = {} THEN <<>>
    ELSE LET m == CHOOSE k \in S : \A j \in S : k = j \/ KeyLT(k, j)
         IN  <<m>> \o sort_keys(S \ {m})

\* A grouping that makes a group of every row.
groupby_each_row(rows, cols) ==
    [n \in 1..Len(rows) |-> [key |-> key_of(rows[n], cols), df |-> <<rows[n]>>]]

\* DataFrame.groupby(cols): sort=True, dropna=True - the groups come in key order
\* and a row with a missing value in a grouping column is in no group.
groupby(rows, cols) ==
    LET keys == {k \in {key_of(rows[i], cols) : i \in 1..Len(rows)} :
                    \A i \in 1..Len(k) : k[i] # NA}
        sorted == sort_keys(keys)
    IN  [n \in 1..Len(sorted) |->
            [key |-> sorted[n],
             df |-> SelectSeq(rows, LAMBDA r : key_of(r, cols) = sorted[n])]]

-----------------------------------------------------------------------------
(* One iteration of the loop over the groups, lines 8313-8425 *)

min_of(S) == CHOOSE t \in S : \A u \in S : TsLE(t, u)

max_of(S) == CHOOSE t \in S : \A u \in S : TsLE(u, t)

next_month(current_date) ==
    IF current_date.month = 12
    THEN [current_date EXCEPT !.year = @ + 1, !.month = 1]
    ELSE [current_date EXCEPT !.month = @ + 1]

RECURSIVE month_loop(_, _)
month_loop(current_date, end_month) ==
    IF TsLE(current_date, end_month)
    THEN <<to_period(current_date)>> \o month_loop(next_month(current_date), end_month)
    ELSE <<>>

generate_months(g) ==
    LET min_start == min_of({g[i]["plan start"] : i \in 1..Len(g)})
        max_end == max_of({g[i]["plan end"] : i \in 1..Len(g)})
    IN  IF ~notna(min_start) \/ ~notna(max_end) THEN <<>>
        ELSE month_loop(replace_day1(min_start), replace_day1(max_end))

\* active_tasks without the test of the task's end against the month's start.
active_tasks_started(g, month) ==
    SelectSeq(g, LAMBDA r : TsLE(r["plan start"], end_time(month)))

active_tasks(g, month) ==
    SelectSeq(g, LAMBDA r : /\ TsLE(r["plan start"], end_time(month))
                            /\ TsLE(start_time(month), r["plan end"]))

RECURSIVE sum_budget(_)
sum_budget(g) ==
    IF g = <<>> THEN 0 ELSE g[1]["budget plan"].num + sum_budget(Tail(g))

monthly_budgets_of(g, ms) == [m \in Range(ms) |-> sum_budget(active_tasks(g, m))]

\* percents with the middle share divided by num_months - 1.
percents_off_by_one(num_months, rule) ==
    IF num_months = 1
    THEN [first |-> Frac(1, 1), middle |-> Frac(0, 1), last |-> Frac(0, 1)]
    ELSE IF num_months = 2
    THEN [first |-> rule.first_month_percent,
          middle |-> Frac(0, 1),
          last |-> FracAdd(rule.middle_months_percent, rule.last_month_percent)]
    ELSE [first |-> rule.first_month_percent,
          middle |-> FracDiv(rule.middle_months_percent, num_months - 1),
          last |-> rule.last_month_percent]

\* percents that gives every interior month the whole middle share.
percents_undivided(num_months, rule) ==
    IF num_months = 1
    THEN [first |-> Frac(1, 1), middle |-> Frac(0, 1), last |-> Frac(0, 1)]
    ELSE IF num_months = 2
    THEN [first |-> rule.first_month_percent,
          middle |-> Frac(0, 1),
          last |-> FracAdd(rule.middle_months_percent, rule.last_month_percent)]
    ELSE [first |-> rule.first_month_percent,
          middle |-> rule.middle_months_percent,
          last |-> rule.last_month_percent]

\* percents without the two-month case: the middle share is not folded into the last.
percents_no_fold(num_months, rule) ==
    IF num_months = 1
    THEN [first |-> Frac(1, 1), middle |-> Frac(0, 1), last |-> Frac(0, 1)]
    ELSE [first |-> rule.first_month_percent,
          middle |-> FracDiv(rule.middle_months_percent, num_months - 1),
          last |-> rule.last_month_percent]

\* percents without the one-month case: a single month gets the first share only.
percents_no_single(num_months, rule) ==
    IF num_months <= 2
    THEN [first |-> rule.first_month_percent,
          middle |-> Frac(0, 1),
          last |-> FracAdd(rule.middle_months_percent, rule.last_month_percent)]
    ELSE [first |-> rule.first_month_percent,
          middle |-> FracDiv(rule.middle_months_percent, num_months - 2),
          last |-> rule.last_month_percent]

\* The three percents for a span of num_months months, lines 8354-8372.
percents(num_months, rule) ==
    IF num_months = 1
    THEN [first |-> Frac(1, 1), middle |-> Frac(0, 1), last |-> Frac(0, 1)]
    ELSE IF num_months = 2
    THEN [first |-> rule.first_month_percent,
          middle |-> Frac(0, 1),
          last |-> FracAdd(rule.middle_months_percent, rule.last_month_percent)]
    ELSE [first |-> rule.first_month_percent,
          middle |-> FracDiv(rule.middle_months_percent, num_months - 2),
          last |-> rule.last_month_percent]

\* month_percent that takes the month before the last for the last one.
month_percent_early_last(i, n, p) ==
    IF i = 1 THEN p.first ELSE IF i = n - 1 THEN p.last ELSE p.middle

\* The percent of the month at position i (1-based) of n, lines 8383-8391.
month_percent(i, n, p) ==
    IF i = 1 THEN p.first ELSE IF i = n THEN p.last ELSE p.middle

\* emits_row without the skip of a zero baseline.
emits_row_always(month_total_budget) == TRUE

\* Whether the month with this 100% baseline gets a row, lines 8377-8380.
emits_row(month_total_budget) == month_total_budget # 0

\* approved_row that records the rule name the caller asked for.
approved_row_requested_rule(i, ms, budgets, p, key, cols, rname) ==
    LET month_total_budget == budgets[ms[i]]
    IN  [col \in {cols[j] : j \in 1..Len(cols)} \ {"_group"} |->
            key[IndexOf(cols, col)]]
        @@ ("month" :> ms[i])
        @@ ("approved budget" :> FracScale(month_total_budget, month_percent(i, Len(ms), p)))
        @@ ("budget plan" :> month_total_budget)
        @@ ("rule_name" :> requested_rule)

\* approved_row that copies every grouping column, the placeholder included.
approved_row_all_cols(i, ms, budgets, p, key, cols, rname) ==
    LET month_total_budget == budgets[ms[i]]
    IN  [col \in {cols[j] : j \in 1..Len(cols)} |-> key[IndexOf(cols, col)]]
        @@ ("month" :> ms[i])
        @@ ("approved budget" :> FracScale(month_total_budget, month_percent(i, Len(ms), p)))
        @@ ("budget plan" :> month_total_budget)
        @@ ("rule_name" :> rname)

\* The row of the month at position i, lines 8394-8423.
approved_row(i, ms, budgets, p, key, cols, rname) ==
    LET month_total_budget == budgets[ms[i]]
    IN  [col \in {cols[j] : j \in 1..Len(cols)} \ {"_group"} |->
            key[IndexOf(cols, col)]]
        @@ ("month" :> ms[i])
        @@ ("approved budget" :> FracScale(month_total_budget, month_percent(i, Len(ms), p)))
        @@ ("budget plan" :> month_total_budget)
        @@ ("rule_name" :> rname)

group_rows(key, g, cols, rname) ==
    LET ms == generate_months(g)
        budgets == monthly_budgets_of(g, ms)
        p == percents(Len(ms), budget_rules[rname])
        emitted == SelectSeq([i \in 1..Len(ms) |-> i],
                             LAMBDA i : emits_row(budgets[ms[i]]))
    IN  [n \in 1..Len(emitted) |->
            approved_row(emitted[n], ms, budgets, p, key, cols, rname)]

-----------------------------------------------------------------------------
(* The whole function as an operator, lines 8217-8433 *)

RECURSIVE all_rows(_, _, _)
all_rows(groups, cols, rname) ==
    IF groups = <<>> THEN <<>>
    ELSE group_rows(groups[1].key, groups[1].df, cols, rname)
         \o all_rows(Tail(groups), cols, rname)

calculate_approved_budget(d, name) ==
    LET rname == resolve_rule(name)
        work == with_group_col(filter_valid(d), d.columns)
        cols == grouping_cols_of(d.columns)
        rows == all_rows(groupby(work, cols), cols, rname)
    IN  IF missing_cols(d) # <<>>
        THEN [df |-> EmptyFrame, error |-> SchemaError(missing_cols(d))]
        ELSE IF work = <<>>
        THEN [df |-> EmptyFrame, error |-> NoValidDataError]
        ELSE IF rows = <<>>
        THEN [df |-> EmptyFrame, error |-> NoRowsError]
        ELSE [df |-> rows, error |-> None]

-----------------------------------------------------------------------------
(* calculate_forecast_budget, lines 8620-8649 *)

\* forecast_source that ignores the edited table.
forecast_source_original(d, edited) == d

\* The table the forecast is computed on: the edited one if there is one.
forecast_source(d, edited) == IF edited # None THEN edited ELSE d

\* The approved rows with the approved budget repeated as "forecast budget".
forecast_rows(rows) ==
    [n \in 1..Len(rows) |->
        IF "approved budget" \in DOMAIN rows[n]
        THEN rows[n] @@ ("forecast budget" :> rows[n]["approved budget"])
        ELSE rows[n]]

\* What the function returns for the outcome of its call of calculate_approved_budget.
forecast_return(approved) ==
    IF approved.error # None
    THEN [df |-> EmptyFrame, error |-> approved.error]
    ELSE [df |-> forecast_rows(approved.df), error |-> None]

calculate_forecast_budget(d, edited, name) ==
    forecast_return(calculate_approved_budget(copy(forecast_source(d, edited)).data, name))

-----------------------------------------------------------------------------
(* Input tables *)

all_cols == {"project name", "section", "task name", "plan start", "plan end", "budget plan"}

Row(p, s, t, start, end, b) ==
    ("project name" :> p) @@ ("section" :> s) @@ ("task name" :> t)
    @@ ("plan start" :> start) @@ ("plan end" :> end) @@ ("budget plan" :> b)

Restrict(r, cols) == [col \in cols |-> r[col]]

\* The tables of at most MaxRows rows, each row a member of rows, with these columns.
Tables(cols, rows) ==
    {[columns |-> cols, rows |-> t] :
        t \in UNION {[1..n -> {Restrict(r, cols) : r \in rows}] : n \in 0..MaxRows}}

\* Instants around a year boundary: mid-month, first and last hour of a month.
DenseTimestamps ==
    {Ts(2024, 12, 15, 12), Ts(2025, 1, 1, 0), Ts(2025, 1, 31, 23),
     Ts(2025, 2, 15, 12), Ts(2025, 3, 1, 0)}

\* Instants more than a year apart.
WideTimestamps == {Ts(2023, 12, 15, 0), Ts(2024, 12, 1, 0), Ts(2025, 1, 15, 0)}

OrderedPairs(T) == {pr \in T \X T : TsLE(pr[1], pr[2])}

\* Tasks of one project with start <= end over the dense instants; the budget
\* is 3 for a task that starts in 2024 and 5 for one that starts in 2025.
DenseRows ==
    {Row("P1", "S1", "T1", pr[1], pr[2], IF pr[1].year = 2024 THEN Num(3) ELSE Num(5)) :
        pr \in OrderedPairs(DenseTimestamps)}

\* Tasks of one project over the wide instants.
WideRows ==
    {Row("P1", "S1", "T1", pr[1], pr[2], Num(5)) : pr \in OrderedPairs(WideTimestamps)}

\* Rows with a missing, unparseable or inverted date, and rows with a missing,
\* unparseable, zero or negative budget, next to valid ones.
ValidityRows ==
    {Row("P1", "S1", "T1", start, end, Num(5)) :
        start \in {Ts(2025, 1, 15, 0), Ts(2025, 2, 10, 0), NaT},
        end \in {Ts(2025, 1, 31, 0), Ts(2025, 2, 15, 0), BadText}}
    \cup
    {Row("P1", "S1", "T1", Ts(2025, 1, 15, 0), end, b) :
        end \in {Ts(2025, 1, 31, 0), Ts(2025, 2, 15, 0)},
        b \in {Num(0), Num(-5), NaN, BadText}}

\* Rows that differ in the grouping columns, some of their values missing; the
\* tasks of project P1 end in January or in February, the others in January.
GroupingRows ==
    {Row(p, s, "T1", Ts(2025, 1, 15, 0), Ts(2025, 1, 31, 0), Num(5)) :
        p \in {"P1", "P2", NA}, s \in {"S1", "S2", NA}}
    \cup
    {Row("P1", s, "T1", Ts(2025, 1, 15, 0), Ts(2025, 2, 15, 0), Num(5)) :
        s \in {"S1", "S2", NA}}

\* Tasks whose start is later in the day than their end: within one month, and
\* from one month into the first instant of the next.
IntradayRows ==
    {Row("P1", "S1", "T1", Ts(2025, 1, 15, 12), Ts(2025, 1, 20, 0), Num(5)),
     Row("P1", "S1", "T1", Ts(2024, 12, 15, 12), Ts(2025, 1, 1, 0), Num(3))}

\* The two end-to-end examples of the documentation.
ExampleOneTask ==
    [columns |-> all_cols,
     rows |-> <<Row("P1", "S1", "T1", Ts(2025, 1, 10, 0), Ts(2025, 3, 20, 0), Num(100000))>>]

ExampleTwoTasks ==
    [columns |-> all_cols,
     rows |-> <<Row("P1", "S1", "T1", Ts(2025, 1, 1, 0), Ts(2025, 1, 31, 0), Num(50000)),
                Row("P1", "S1", "T1", Ts(2025, 1, 15, 0), Ts(2025, 2, 15, 0), Num(30000))>>]

ExampleTables == {ExampleOneTask, ExampleTwoTasks}

dated_cols == {"plan start", "plan end", "budget plan", "project name"}

\* The grouping columns present vary over every subset of the three.
GroupingTables ==
    UNION {Tables({"plan start", "plan end", "budget plan"} \cup K, GroupingRows) :
              K \in SUBSET {"project name", "section", "task name"}}

\* Tables that lack at least one required column.
SchemaTables ==
    UNION {Tables(C \cup {"project name"}, ValidityRows) :
              C \in (SUBSET {"plan start", "plan end", "budget plan"})
                    \ {{"plan start", "plan end", "budget plan"}}}

\* The calls: a table and the rule name passed with it.
Inputs ==
    (Tables(dated_cols, DenseRows) \X {"default"})
    \cup (Tables(dated_cols, WideRows) \X {"default", "custom"})
    \cup (Tables(dated_cols, ValidityRows) \X {"default"})
    \cup (GroupingTables \X {"default"})
    \cup (SchemaTables \X {"default"})
    \cup (ExampleTables \X {"default", "custom"})
    \cup (Tables({"plan start", "plan end", "budget plan"}, IntradayRows) \X {"default"})

\* A valid task, one with an unparseable end and one without a project name.
ForecastRows ==
    {Row("P1", "S1", "T1", Ts(2025, 1, 15, 0), Ts(2025, 2, 15, 0), Num(5)),
     Row("P1", "S1", "T1", Ts(2025, 1, 15, 0), BadText, Num(5)),
     Row(NA, "S1", "T1", Ts(2025, 1, 15, 0), Ts(2025, 1, 31, 0), Num(3))}

\* Original and edited tables, with and without the budget column.
ForecastTables ==
    Tables(dated_cols, ForecastRows) \cup Tables(dated_cols \ {"budget plan"}, ForecastRows)

\* The calls of calculate_forecast_budget: df, edited_data (or None) and the rule name.
ForecastInputs ==
    (ForecastTables \X (ForecastTables \cup {None}) \X {"default"})
    \cup ({ExampleOneTask} \X {None, ExampleTwoTasks} \X {"default", "custom"})

-----------------------------------------------------------------------------
(* The state machine of one call of calculate_approved_budget or of        *)
(* calculate_forecast_budget                                               *)

Unset == <<>>

Init ==
    /\ \/ /\ called = "calculate_approved_budget"
          /\ \E in \in Inputs : df = in[1] /\ requested_rule = in[2]
          /\ forecast_df = Unset
          /\ edited_data = Unset
          /\ pc = "start"
       \/ /\ called = "calculate_forecast_budget"
          /\ \E in \in ForecastInputs :
                 forecast_df = in[1] /\ edited_data = in[2] /\ requested_rule = in[3]
          /\ df = Unset
          /\ pc = "forecast"
    /\ forecast_work_df = Unset
    /\ forecast_result = Unset
    /\ ConcurrentIdle
    /\ DashboardIdle
    /\ AuthIdle
    /\ rule_name = requested_rule
    /\ work_df = Unset
    /\ grouping_cols = Unset
    /\ grouped = Unset
    /\ group_key = Unset
    /\ group_df = Unset
    /\ months = Unset
    /\ monthly_budgets = Unset
    /\ first_month_percent = Unset
    /\ middle_months_percent = Unset
    /\ last_month_percent = Unset
    /\ approved_budget_rows = Unset
    /\ result = Unset

\* Lines 8633-8636: calculate_forecast_budget copies the table it works on and
\* calls calculate_approved_budget with the copy and the rule name.
ForecastCall ==
    /\ pc = "forecast"
    /\ UNCHANGED outside_call
    /\ forecast_work_df' = copy(forecast_source(forecast_df, edited_data))
    /\ df' = forecast_work_df'.data
    /\ pc' = "start"
    /\ UNCHANGED <<requested_rule, rule_name, work_df, grouping_cols, grouped, group_key,
                   group_df, months, monthly_budgets, first_month_percent,
                   middle_months_percent, last_month_percent, approved_budget_rows,
                   result, called, forecast_df, edited_data, forecast_result>>

\* Lines 8248-8260: the rule lookup and the check of the required columns.
CheckColumns ==
    /\ pc = "start"
    /\ UNCHANGED outside_call
    /\ rule_name' = resolve_rule(rule_name)
    /\ IF missing_cols(df) # <<>>
       THEN /\ result' = [df |-> EmptyFrame, error |-> SchemaError(missing_cols(df))]
            /\ pc' = "done"
       ELSE /\ result' = result
            /\ pc' = "filter"
    /\ UNCHANGED <<df, requested_rule, work_df, grouping_cols, grouped, group_key,
                   group_df, months, monthly_budgets, first_month_percent,
                   middle_months_percent, last_month_percent, approved_budget_rows>>
    /\ UNCHANGED forecast_frame

\* Lines 8262-8285: the copy, the coercion and the validity filter.  The
\* coercion writes to the copy; the table passed in, and the caller's table the
\* forecast passed on, change only if the copies share their data with them.
FilterValid ==
    /\ pc = "filter"
    /\ UNCHANGED outside_call
    /\ work_df' = filter_valid(df)
    /\ df' = IF copy(df).shares_data THEN coerced(df) ELSE df
    /\ IF called = "calculate_forecast_budget"
       THEN LET reached == copy(df).shares_data /\ forecast_work_df.shares_data
            IN  /\ forecast_work_df' = [forecast_work_df EXCEPT !.data = df']
                /\ edited_data' = IF reached /\ edited_data # None
                                  THEN coerced(edited_data) ELSE edited_data
                /\ forecast_df' = IF reached /\ edited_data = None
                                  THEN coerced(forecast_df) ELSE forecast_df
       ELSE UNCHANGED <<forecast_work_df, edited_data, forecast_df>>
    /\ UNCHANGED <<called, forecast_result>>
    /\ IF work_df' = <<>>
       THEN /\ result' = [df |-> EmptyFrame, error |-> NoValidDataError]
            /\ pc' = "done"
       ELSE /\ result' = result
            /\ pc' = "group"
    /\ UNCHANGED <<requested_rule, rule_name, grouping_cols, grouped, group_key,
                   group_df, months, monthly_budgets, first_month_percent,
                   middle_months_percent, last_month_percent, approved_budget_rows>>

\* Lines 8287-8311: the grouping columns and the groupby.
GroupRows ==
    /\ pc = "group"
    /\ UNCHANGED outside_call
    /\ grouping_cols' = grouping_cols_of(df.columns)
    /\ work_df' = with_group_col(work_df, df.columns)
    /\ approved_budget_rows' = <<>>
    /\ grouped' = groupby(work_df', grouping_cols')
    /\ pc' = "loop"
    /\ UNCHANGED <<df, requested_rule, rule_name, group_key, group_df, months,
                   monthly_budgets, first_month_percent, middle_months_percent,
                   last_month_percent, result>>
    /\ UNCHANGED forecast_frame

\* Lines 8313-8425: one iteration of the loop over the groups.
ProcessGroup ==
    /\ pc = "loop"
    /\ UNCHANGED outside_call
    /\ grouped # <<>>
    /\ group_key' = grouped[1].key
    /\ group_df' = grouped[1].df
    /\ grouped' = Tail(grouped)
    /\ months' = generate_months(group_df')
    /\ IF months' = <<>>
       THEN UNCHANGED <<monthly_budgets, first_month_percent, middle_months_percent,
                        last_month_percent, approved_budget_rows>>
       ELSE LET p == percents(Len(months'), budget_rules[rule_name])
            IN  /\ monthly_budgets' = monthly_budgets_of(group_df', months')
                /\ first_month_percent' = p.first
                /\ middle_months_percent' = p.middle
                /\ last_month_percent' = p.last
                /\ approved_budget_rows' =
                       approved_budget_rows
                       \o group_rows(group_key', group_df', grouping_cols, rule_name)
    /\ UNCHANGED <<df, requested_rule, rule_name, pc, work_df, grouping_cols, result>>
    /\ UNCHANGED forecast_frame

\* Lines 8427-8433: the result.
Return ==
    /\ pc = "loop"
    /\ UNCHANGED outside_call
    /\ grouped = <<>>
    /\ result' = IF approved_budget_rows = <<>>
                 THEN [df |-> EmptyFrame, error |-> NoRowsError]
                 ELSE [df |-> approved_budget_rows, error |-> None]
    /\ pc' = "done"
    /\ UNCHANGED <<df, requested_rule, rule_name, work_df, grouping_cols, grouped,
                   group_key, group_df, months, monthly_budgets, first_month_percent,
                   middle_months_percent, last_month_percent, approved_budget_rows>>
    /\ UNCHANGED forecast_frame

\* Lines 8636-8649: calculate_forecast_budget passes the error on, or returns
\* the rows with the "forecast budget" column.
ForecastReturn ==
    /\ pc = "done"
    /\ UNCHANGED outside_call
    /\ called = "calculate_forecast_budget"
    /\ forecast_result' = forecast_return(result)
    /\ pc' = "forecast_done"
    /\ UNCHANGED <<df, requested_rule, rule_name, work_df, grouping_cols, grouped,
                   group_key, group_df, months, monthly_budgets, first_month_percent,
                   middle_months_percent, last_month_percent, approved_budget_rows,
                   result, called, forecast_df, edited_data, forecast_work_df>>

Next ==
    \/ ForecastCall
    \/ CheckColumns
    \/ FilterValid
    \/ GroupRows
    \/ ProcessGroup
    \/ Return
    \/ ForecastReturn

Spec == Init /\ [][Next]_vars

-----------------------------------------------------------------------------
(* Properties.  They are stated on the loop locals of the group processed  *)
(* last and on the rows emitted for it, in the terms of the documentation. *)

\* A group has been processed: the locals are those of its iteration.
Processed == pc \in {"loop", "done"} /\ group_key # Unset

\* The rows emitted so far that carry the grouping values of the group processed last.
RowsOfGroup ==
    SelectSeq(approved_budget_rows,
              LAMBDA r : \A i \in 1..Len(grouping_cols) :
                            grouping_cols[i] = "_group" \/ r[grouping_cols[i]] = group_key[i])

MonthIdx(p) == p.year * 12 + (p.month - 1)

PeriodOfIdx(n) == [year |-> n \div 12, month |-> (n % 12) + 1]

\* The ordinal position of a month within the span that starts at months[1].
PositionInSpan(m) == MonthIdx(m) - MonthIdx(months[1]) + 1

HasRowAt(i) == \E n \in 1..Len(RowsOfGroup) : RowsOfGroup[n]["month"] = months[i]

\* C1: in a span of N >= 3 months the first month's row is allocated
\* baseline x firstMonthShare (0.50), the last month's baseline x lastMonthShare
\* (0.05) and every interior month's baseline x middleMonthsShare / (N - 2)
\* (0.45 / (N - 2)).
C1_SharesThreeOrMore ==
    (Processed /\ Len(months) >= 3) =>
        \A n \in 1..Len(RowsOfGroup) :
            LET r == RowsOfGroup[n]
                N == Len(months)
                rule == budget_rules[r["rule_name"]]
                i == PositionInSpan(r["month"])
                total == r["budget plan"]
            IN  /\ i \in 1..N
                /\ i = 1 =>
                     /\ FracEq(r["approved budget"], FracScale(total, rule.first_month_percent))
                     /\ FracEq(r["approved budget"], Frac(total * 50, 100))
                /\ i = N =>
                     /\ FracEq(r["approved budget"], FracScale(total, rule.last_month_percent))
                     /\ FracEq(r["approved budget"], Frac(total * 5, 100))
                /\ (1 < i /\ i < N) =>
                     /\ FracEq(r["approved budget"],
                               Frac(total * rule.middle_months_percent.num,
                                    rule.middle_months_percent.den * (N - 2)))
                     /\ FracEq(r["approved budget"], Frac(total * 45, 100 * (N - 2)))

\* A span of four months or more with rows for its first, an interior and its last month.
C1_Witness ==
    /\ Processed
    /\ Len(months) >= 4
    /\ HasRowAt(1) /\ HasRowAt(2) /\ HasRowAt(3) /\ HasRowAt(Len(months))

\* C2: in a span of exactly 2 months the first month's row is allocated
\* baseline x firstMonthShare and the second baseline x (middleMonthsShare +
\* lastMonthShare); with the default rule both are baseline x 0.50.
C2_SharesTwoMonths ==
    (Processed /\ Len(months) = 2) =>
        \A n \in 1..Len(RowsOfGroup) :
            LET r == RowsOfGroup[n]
                rule == budget_rules[r["rule_name"]]
                i == PositionInSpan(r["month"])
                total == r["budget plan"]
            IN  /\ i \in {1, 2}
                /\ FracEq(r["approved budget"], Frac(total * 50, 100))
                /\ i = 1 =>
                     FracEq(r["approved budget"], FracScale(total, rule.first_month_percent))
                /\ i = 2 =>
                     FracEq(r["approved budget"],
                            FracScale(total, FracAdd(rule.middle_months_percent,
                                                     rule.last_month_percent)))

\* A span of two months with a row for each.
C2_Witness == Processed /\ Len(months) = 2 /\ HasRowAt(1) /\ HasRowAt(2)

\* C3: in a span of exactly one month the row of the group is allocated the
\* whole baseline, which is the baseline x (first + middle + last share).
C3_SingleMonthAll ==
    (Processed /\ Len(months) = 1) =>
        /\ Len(RowsOfGroup) <= 1
        /\ \A n \in 1..Len(RowsOfGroup) :
            LET r == RowsOfGroup[n]
                rule == budget_rules[r["rule_name"]]
                total == r["budget plan"]
            IN  /\ r["month"] = months[1]
                /\ FracEq(r["approved budget"], Frac(total, 1))
                /\ FracEq(r["approved budget"],
                          FracScale(total,
                                    FracAdd(rule.first_month_percent,
                                            FracAdd(rule.middle_months_percent,
                                                    rule.last_month_percent))))

\* A span of one month with its row.
C3_Witness == Processed /\ Len(months) = 1 /\ Len(RowsOfGroup) = 1

\* The numerators of the shares of positions 1..n over the common denominator d.
RECURSIVE ShareNumerators(_, _)
ShareNumerators(n, d) ==
    IF n = 0 THEN 0
    ELSE LET share == month_percent(n, Len(months),
                                    [first |-> first_month_percent,
                                     middle |-> middle_months_percent,
                                     last |-> last_month_percent])
         IN  share.num * (d \div share.den) + ShareNumerators(n - 1, d)

\* C4: every rule of the registry has first + middle + last = 1, and the shares
\* the loop assigns to the N positions of a span add up to exactly 1.
C4_SharesSumToOne ==
    /\ \A name \in DOMAIN budget_rules :
          LET rule == budget_rules[name]
          IN  FracEq(FracAdd(rule.first_month_percent,
                             FracAdd(rule.middle_months_percent, rule.last_month_percent)),
                     Frac(1, 1))
    /\ (Processed /\ months # <<>>) =>
          LET d == first_month_percent.den * middle_months_percent.den
                   * last_month_percent.den
          IN  ShareNumerators(Len(months), d) = d

\* A span of more than a year has been given its shares.
C4_Witness == Processed /\ Len(months) > 12

\* The months from the one of the group's earliest plan start through the one
\* of its latest plan end.
ExpectedMonths ==
    LET a == MonthIdx(to_period(min_of({group_df[i]["plan start"] : i \in 1..Len(group_df)})))
        b == MonthIdx(to_period(max_of({group_df[i]["plan end"] : i \in 1..Len(group_df)})))
    IN  [i \in 1..(b - a + 1) |-> PeriodOfIdx(a + i - 1)]

\* C5: the months generated for a group are exactly the consecutive calendar
\* months from the month of its minimum planStart through the month of its
\* maximum planEnd, in order, also across year boundaries.
C5_MonthsCoverSpan == Processed => months = ExpectedMonths

\* The months generated when the earliest start is no later in the day than the latest end.
C5_WholeDays ==
    (/\ Processed
     /\ min_of({group_df[i]["plan start"] : i \in 1..Len(group_df)}).hour
          <= max_of({group_df[i]["plan end"] : i \in 1..Len(group_df)}).hour)
        => months = ExpectedMonths

\* A record of the input table that has both dates, start <= end and a positive budget.
IsValidRecord(r) ==
    /\ r["plan start"] \notin {NaT, NaN, BadText}
    /\ r["plan end"] \notin {NaT, NaN, BadText}
    /\ r["budget plan"] \notin {NaN, BadText}
    /\ r["budget plan"].num > 0
    /\ TsLE(r["plan start"], r["plan end"])

\* The record carries the grouping values of the group processed last.
InGroup(r) ==
    \A i \in 1..Len(grouping_cols) :
        grouping_cols[i] = "_group" \/ r[grouping_cols[i]] = group_key[i]

RECURSIVE SumOf(_, _)
SumOf(S, f) ==
    IF S = {} THEN 0
    ELSE LET x == CHOOSE y \in S : TRUE IN f[x] + SumOf(S \ {x}, f)

\* The sum of budgetPlan over the valid records of the group that overlap month m.
Baseline(m) ==
    LET members == {i \in 1..Len(df.rows) :
                       /\ IsValidRecord(df.rows[i])
                       /\ InGroup(df.rows[i])
                       /\ MonthIdx(to_period(df.rows[i]["plan start"])) <= MonthIdx(m)
                       /\ MonthIdx(to_period(df.rows[i]["plan end"])) >= MonthIdx(m)}
    IN  SumOf(members, [i \in members |-> df.rows[i]["budget plan"].num])

\* C6: the baseline of every month of a group's span is the sum of budgetPlan
\* over exactly the valid members of the group whose interval overlaps the month.
C6_BaselineIsOverlapSum ==
    (Processed /\ months # <<>>) =>
        \A i \in 1..Len(months) : monthly_budgets[months[i]] = Baseline(months[i])

\* A group of two members with a month that only one of them overlaps.
C6_Witness ==
    /\ Processed
    /\ Len(group_df) = 2
    /\ \E i \in 1..Len(months) :
          /\ monthly_budgets[months[i]] > 0
          /\ monthly_budgets[months[i]] < sum_budget(group_df)

\* The share of position i of a span of n months under rule.
ShareForPosition(i, n, rule) ==
    IF n = 1
    THEN FracAdd(rule.first_month_percent,
                 FracAdd(rule.middle_months_percent, rule.last_month_percent))
    ELSE IF i = 1 THEN rule.first_month_percent
    ELSE IF n = 2 THEN FracAdd(rule.middle_months_percent, rule.last_month_percent)
    ELSE IF i = n THEN rule.last_month_percent
    ELSE FracDiv(rule.middle_months_percent, n - 2)

\* The allocations of the result, as whole amounts, by month.
ResultAllocations ==
    {<<result.df[n]["month"], result.df[n]["budget plan"],
       result.df[n]["approved budget"].num \div result.df[n]["approved budget"].den>> :
        n \in 1..Len(result.df)}

\* C7: every row has allocatedBudget = monthTotalBudget x share(position, N,
\* rule), the position counted over all months of the span; the two tasks
\* Jan 1-31 (50000) and Jan 15-Feb 15 (30000) of one group give Jan 80000 ->
\* 40000 and Feb 30000 -> 15000.
C7_AllocationIsBaselineTimesShare ==
    /\ Processed =>
          \A n \in 1..Len(RowsOfGroup) :
              LET r == RowsOfGroup[n]
              IN  FracEq(r["approved budget"],
                         FracScale(r["budget plan"],
                                   ShareForPosition(PositionInSpan(r["month"]), Len(months),
                                                    budget_rules[r["rule_name"]])))
    /\ (pc = "done" /\ df = ExampleTwoTasks)
          => ResultAllocations = {<<[year |-> 2025, month |-> 1], 80000, 40000>>,
                                  <<[year |-> 2025, month |-> 2], 30000, 15000>>}

\* A span with a skipped zero-baseline month between two months that have rows.
C7_Witness ==
    /\ Processed
    /\ Len(months) >= 3
    /\ \E i \in 2..(Len(months) - 1) : monthly_budgets[months[i]] = 0
    /\ HasRowAt(1)
    /\ HasRowAt(Len(months))

\* C8: the months of a group's rows are exactly the months of its generated
\* span whose baseline is not zero, and no row has a zero monthTotalBudget.
C8_RowsAreNonZeroMonths ==
    Processed =>
        /\ {RowsOfGroup[n]["month"] : n \in 1..Len(RowsOfGroup)}
              = {m \in Range(months) : Baseline(m) # 0}
        /\ \A n \in 1..Len(RowsOfGroup) : RowsOfGroup[n]["budget plan"] # 0
        /\ Len(RowsOfGroup) = Cardinality({m \in Range(months) : Baseline(m) # 0})

\* A span with a zero-baseline month, and rows for the other months.
C8_Witness ==
    /\ Processed
    /\ \E i \in 1..Len(months) : Baseline(months[i]) = 0
    /\ RowsOfGroup # <<>>

\* The input table without the records that lack a date, have planStart >
\* planEnd, or lack a budget or have a zero or negative one.
WithoutExcluded(d) == [d EXCEPT !.rows = SelectSeq(d.rows, IsValidRecord)]

\* C9: a record with a missing planStart or planEnd, with planStart > planEnd
\* or with a missing, zero or negative budgetPlan is excluded before grouping:
\* the result is the result computed on the input without those records.
C9_ExcludedRecordsHaveNoEffect ==
    (pc = "done" /\ missing_cols(df) = <<>>) =>
        result = calculate_approved_budget(WithoutExcluded(df), requested_rule)

\* A call that returned rows for a table with a valid record and an excluded one
\* whose dates reach beyond the valid record's.
C9_Witness ==
    /\ pc = "done"
    /\ missing_cols(df) = <<>>
    /\ result.error = None
    /\ \E i, j \in 1..Len(df.rows) :
          /\ IsValidRecord(df.rows[i])
          /\ ~IsValidRecord(df.rows[j])
          /\ df.rows[j]["plan start"] \notin {NaT, NaN, BadText}
          /\ df.rows[j]["plan end"] \notin {NaT, NaN, BadText}
          /\ TsLE(df.rows[j]["plan start"], df.rows[j]["plan end"])
          /\ ~TsLE(df.rows[j]["plan end"], df.rows[i]["plan end"])

\* The number of groups that hold row i of work_df.
GroupsHolding(i) ==
    Cardinality({n \in 1..Len(grouped) : work_df[i] \in Range(grouped[n].df)})

\* C10: grouping partitions the valid records: every record that passed the
\* validation is in exactly one group, also when its value for a grouping
\* column is missing, and two valid records share a group exactly when they
\* agree on every grouping column present.
C10_GroupingIsPartition ==
    (pc = "loop" /\ group_key = Unset) =>
        /\ \A i \in 1..Len(work_df) : GroupsHolding(i) = 1
        /\ \A i, j \in 1..Len(work_df) :
              (\E n \in 1..Len(grouped) :
                  {work_df[i], work_df[j]} \subseteq Range(grouped[n].df))
                <=> key_of(work_df[i], grouping_cols) = key_of(work_df[j], grouping_cols)

\* The grouping of the records that have a value in every grouping column.
C10_CompleteKeysPartition ==
    (pc = "loop" /\ group_key = Unset) =>
        /\ \A i \in 1..Len(work_df) :
              GroupsHolding(i) =
                  IF \E c \in 1..Len(grouping_cols) : work_df[i][grouping_cols[c]] = NA
                  THEN 0 ELSE 1
        /\ \A i, j \in 1..Len(work_df) :
              (\E n \in 1..Len(grouped) :
                  {work_df[i], work_df[j]} \subseteq Range(grouped[n].df))
                => key_of(work_df[i], grouping_cols) = key_of(work_df[j], grouping_cols)

\* None of the grouping columns is present in the table.
NoKeyColumns == df.columns \cap Range(key_cols) = {}

\* The records of the table that have both dates, start <= end and a positive budget.
ValidRecords == SelectSeq(df.rows, IsValidRecord)

\* C11: when none of the grouping columns is present, all valid records form
\* one group: its span is the one generated from the minimum planStart and the
\* maximum planEnd over all valid records, its baselines are summed over all
\* valid records, and its rows carry no grouping-key field (the placeholder
\* "_group" is not exposed).
C11_SingleImplicitGroup ==
    (Processed /\ NoKeyColumns) =>
        /\ grouped = <<>>
        /\ Len(group_df) = Len(ValidRecords)
        /\ \A i \in 1..Len(group_df) : Restrict(group_df[i], df.columns) = ValidRecords[i]
        /\ months =
              month_loop(
                  replace_day1(min_of({ValidRecords[i]["plan start"] : i \in 1..Len(ValidRecords)})),
                  replace_day1(max_of({ValidRecords[i]["plan end"] : i \in 1..Len(ValidRecords)})))
        /\ \A i \in 1..Len(months) : monthly_budgets[months[i]] = Baseline(months[i])
        /\ \A n \in 1..Len(approved_budget_rows) :
              DOMAIN approved_budget_rows[n]
                  = {"month", "approved budget", "budget plan", "rule_name"}

\* Two valid records with different ends in a table without grouping columns,
\* and rows emitted for them.
C11_Witness ==
    /\ Processed
    /\ NoKeyColumns
    /\ Len(group_df) = 2
    /\ group_df[1]["plan end"] # group_df[2]["plan end"]
    /\ Len(approved_budget_rows) >= 2

\* The required fields that the table lacks.
AbsentRequired == {"budget plan", "plan start", "plan end"} \ df.columns

\* C12: whenever a required field (budget plan, plan start, plan end) is absent
\* from the table, the call returns zero rows and the schema error naming
\* exactly the absent required fields, whatever the records are (an empty
\* table included): it is never the no-valid-data error.
C12_SchemaErrorNamesAbsentFields ==
    (pc = "done" /\ AbsentRequired # {}) =>
        /\ result.df = <<>>
        /\ Head(result.error) = "missing required columns"
        /\ Range(Tail(result.error)) = AbsentRequired
        /\ Len(Tail(result.error)) = Cardinality(AbsentRequired)
        /\ result.error # NoValidDataError

\* A call that returned for a table with records that lacks two required fields.
C12_Witness ==
    /\ pc = "done"
    /\ Cardinality(AbsentRequired) = 2
    /\ df.rows # <<>>

\* C13: when all required fields are present and no record passes validation
\* (the table is empty, or every record has planStart > planEnd, ...), the call
\* returns zero rows and the no-valid-data message, which is not a schema-error
\* message.
C13_NoValidData ==
    /\ (pc = "done" /\ AbsentRequired = {} /\ ValidRecords = <<>>) =>
          result = [df |-> <<>>, error |-> NoValidDataError]
    /\ \A missing \in SUBSET Range(required_cols) :
          \A order \in [1..Cardinality(missing) -> missing] :
              NoValidDataError # SchemaError(order)

\* A call that returned for a table whose records all have planStart > planEnd.
C13_Witness ==
    /\ pc = "done"
    /\ AbsentRequired = {}
    /\ df.rows # <<>>
    /\ \A i \in 1..Len(df.rows) :
          /\ df.rows[i]["plan start"] \notin {NaT, NaN, BadText}
          /\ df.rows[i]["plan end"] \notin {NaT, NaN, BadText}
          /\ ~TsLE(df.rows[i]["plan start"], df.rows[i]["plan end"])

\* C14: whenever the required fields are present and at least one record
\* passes validation, the call returns at least one row and no error message:
\* the schema error and the no-valid-data error are the only error outcomes.
C14_ValidRecordGivesRows ==
    (pc = "done" /\ AbsentRequired = {} /\ ValidRecords # <<>>) =>
        /\ result.error = None
        /\ result.df # <<>>

\* The outcome when every valid record has a value in every grouping column
\* and no start is later in the day than an end.
C14_CompleteKeysWholeDays ==
    (/\ pc = "done"
     /\ AbsentRequired = {}
     /\ ValidRecords # <<>>
     /\ \A i \in 1..Len(ValidRecords) : \A col \in df.columns \cap Range(key_cols) : ValidRecords[i][col] # NA
     /\ \A i, j \in 1..Len(ValidRecords) :
           ValidRecords[i]["plan start"].hour <= ValidRecords[j]["plan end"].hour)
        => (result.error = None /\ result.df # <<>>)

\* An outcome is rows without a message or no rows with a message.
IsOutcome(o) ==
    \/ o.df # <<>> /\ o.error = None
    \/ o.df = <<>> /\ o.error # None /\ Len(o.error) > 0

\* C15: every call of calculate_approved_budget and of calculate_forecast_budget
\* returns either a non-empty row table with no error message, or an empty row
\* table with a non-empty error message.
C15_RowsOrMessage ==
    /\ pc = "done" => IsOutcome(result)
    /\ pc = "forecast_done" => IsOutcome(forecast_result)

\* A forecast call whose valid records yielded no row.
C15_Witness ==
    /\ pc = "forecast_done"
    /\ forecast_result.df = <<>>
    /\ work_df # Unset
    /\ work_df # <<>>

\* C16: for a rule name that is not in the registry the call returns what it
\* returns for "default" on the same table, and every row's rule_name is
\* "default", not the name asked for.
C16_UnknownRuleIsDefault ==
    (pc = "done" /\ requested_rule \notin DOMAIN budget_rules) =>
        /\ result = calculate_approved_budget(df, "default")
        /\ \A n \in 1..Len(result.df) : result.df[n]["rule_name"] = "default"

\* A call with the unknown rule name "custom" that returned rows.
C16_Witness ==
    /\ pc = "done"
    /\ requested_rule = "custom"
    /\ Len(result.df) >= 2

\* The outcome of calculate_approved_budget on the edited table if the caller
\* supplied one, on the original table otherwise.
ApprovedOfForecastInput ==
    calculate_approved_budget(IF edited_data # None THEN edited_data ELSE forecast_df,
                              requested_rule)

\* C18: calculate_forecast_budget(df, edited, rule) returns the outcome of
\* calculate_approved_budget on the edited table when one is supplied (df then
\* has no influence) and on df otherwise: the same error message and the same
\* rows in the same order (groups, months, baselines, approved budgets, rule
\* names), each with one more field, "forecast budget", equal to the row's
\* approved budget.
C18_ForecastIsApprovedOnEdited ==
    pc = "forecast_done" =>
        /\ forecast_result.error = ApprovedOfForecastInput.error
        /\ Len(forecast_result.df) = Len(ApprovedOfForecastInput.df)
        /\ \A n \in 1..Len(forecast_result.df) :
              LET f == forecast_result.df[n]
                  a == ApprovedOfForecastInput.df[n]
              IN  /\ DOMAIN f = DOMAIN a \cup {"forecast budget"}
                  /\ \A col \in DOMAIN a : f[col] = a[col]
                  /\ f["forecast budget"] = a["approved budget"]

\* A forecast call that returned rows for an edited table while the original
\* table alone gives an error.
C18_Witness ==
    /\ pc = "forecast_done"
    /\ edited_data # None
    /\ forecast_result.df # <<>>
    /\ calculate_approved_budget(forecast_df, requested_rule).error # None

\* The months from the one of the task's start through the one of its end.
MonthsOfTask(t) ==
    LET a == MonthIdx(to_period(t["plan start"]))
        b == MonthIdx(to_period(t["plan end"]))
    IN  [i \in 1..(b - a + 1) |-> PeriodOfIdx(a + i - 1)]

\* The rows of a group of one task have the task's months in order, its whole
\* budget as baseline and the budget times the share of the position.
FullBudgetEachMonth ==
    LET t == group_df[1]
        ms == MonthsOfTask(t)
    IN  /\ Len(RowsOfGroup) = Len(ms)
        /\ \A n \in 1..Len(RowsOfGroup) :
              /\ n <= Len(ms)
              /\ RowsOfGroup[n]["month"] = ms[n]
              /\ RowsOfGroup[n]["budget plan"] = t["budget plan"].num
              /\ FracEq(RowsOfGroup[n]["approved budget"],
                        FracScale(t["budget plan"].num,
                                  ShareForPosition(n, Len(ms), budget_rules[rule_name])))

\* C19: a valid task contributes its full budgetPlan to the baseline of each
\* month it overlaps: a group of one task spanning N months yields N rows, each
\* with monthTotalBudget = budgetPlan and allocatedBudget = budgetPlan x share
\* of the position; the task 2025-01-10..2025-03-20 of 100000 gives Jan 50000,
\* Feb 45000, Mar 5000, each with baseline 100000.
C19_FullBudgetEachMonth ==
    /\ (Processed /\ Len(group_df) = 1) => FullBudgetEachMonth
    /\ (pc = "done" /\ df = ExampleOneTask /\ requested_rule = "default")
          => ResultAllocations = {<<[year |-> 2025, month |-> 1], 100000, 50000>>,
                                  <<[year |-> 2025, month |-> 2], 100000, 45000>>,
                                  <<[year |-> 2025, month |-> 3], 100000, 5000>>}

\* The rows of a one-task group whose start is no later in the day than its end.
C19_WholeDayTask ==
    /\ (/\ Processed
        /\ Len(group_df) = 1
        /\ group_df[1]["plan start"].hour <= group_df[1]["plan end"].hour)
          => FullBudgetEachMonth
    /\ (pc = "done" /\ df = ExampleOneTask /\ requested_rule = "default")
          => ResultAllocations = {<<[year |-> 2025, month |-> 1], 100000, 50000>>,
                                  <<[year |-> 2025, month |-> 2], 100000, 45000>>,
                                  <<[year |-> 2025, month |-> 3], 100000, 5000>>}

\* C20: calculate_approved_budget and calculate_forecast_budget leave their
\* input tables unchanged: no step of a call changes the table passed as df or
\* as edited_data (the coercion, the filter and the "_group" column go to a
\* private copy).
C20_InputsUnchanged ==
    [][/\ forecast_df' = forecast_df
       /\ edited_data' = edited_data
       /\ pc # "forecast" => df' = df]_vars

\* A forecast call that has returned, for an edited table with a cell that the
\* coercion turns into NaT.
C20_Witness ==
    /\ pc = "forecast_done"
    /\ edited_data # None
    /\ "plan end" \in edited_data.columns
    /\ "budget plan" \in edited_data.columns
    /\ \E i \in 1..Len(edited_data.rows) : edited_data.rows[i]["plan end"] = BadText
    /\ forecast_result.df # <<>>

-----------------------------------------------------------------------------
(* Two invocations of calculate_approved_budget whose steps interleave.    *)
(* Each invocation has its own frame (parameters and locals); the list of  *)
(* result rows is an object that the frame refers to.                      *)

Invocations == {1, 2}

\* One list for every invocation, in place of a new one for each.
module_level_list(c) == 0

\* approved_budget_rows = [] creates a list of its own for the invocation c.
new_list(c) == c

\* Two tasks of two projects.
ConcurrentRows ==
    {Row("P1", "S1", "T1", Ts(2025, 1, 15, 0), Ts(2025, 2, 15, 0), Num(5)),
     Row("P2", "S1", "T1", Ts(2025, 1, 15, 0), Ts(2025, 1, 31, 0), Num(3))}

\* The input snapshot of an invocation.
ConcurrentInputs == Tables(dated_cols, ConcurrentRows) \X {"default"}

\* The single call does not run.
CallIdle ==
    /\ df = Unset
    /\ requested_rule = Unset
    /\ rule_name = Unset
    /\ pc = "idle"
    /\ work_df = Unset
    /\ grouping_cols = Unset
    /\ grouped = Unset
    /\ group_key = Unset
    /\ group_df = Unset
    /\ months = Unset
    /\ monthly_budgets = Unset
    /\ first_month_percent = Unset
    /\ middle_months_percent = Unset
    /\ last_month_percent = Unset
    /\ approved_budget_rows = Unset
    /\ result = Unset
    /\ called = Unset
    /\ forecast_df = Unset
    /\ edited_data = Unset
    /\ forecast_work_df = Unset
    /\ forecast_result = Unset

\* The variables of the single call and of the forecast call.
call_vars ==
    <<df, requested_rule, rule_name, pc, work_df, grouping_cols, grouped, group_key,
      group_df, months, monthly_budgets, first_month_percent, middle_months_percent,
      last_month_percent, approved_budget_rows, result, forecast_frame>>

\* The variables that a step of an interleaved invocation leaves alone.
outside_concurrent == <<call_vars, dashboard_vars, auth_vars>>

ConcurrentInit ==
    /\ CallIdle
    /\ DashboardIdle
    /\ AuthIdle
    /\ \E in \in [Invocations -> ConcurrentInputs] :
           invocations =
               [c \in Invocations |->
                   [df |-> in[c][1], requested_rule |-> in[c][2], rule_name |-> in[c][2],
                    pc |-> "start", work_df |-> Unset, grouping_cols |-> Unset,
                    grouped |-> Unset, approved_budget_rows |-> Unset, result |-> Unset]]
    /\ row_lists = <<>>

\* Lines 8248-8260 in the frame of invocation c.
InvocationCheckColumns(c) ==
    LET f == invocations[c]
    IN  /\ f.pc = "start"
        /\ invocations' =
              [invocations EXCEPT ![c] =
                  IF missing_cols(f.df) # <<>>
                  THEN [f EXCEPT !.rule_name = resolve_rule(f.rule_name),
                                 !.result = [df |-> EmptyFrame,
                                             error |-> SchemaError(missing_cols(f.df))],
                                 !.pc = "done"]
                  ELSE [f EXCEPT !.rule_name = resolve_rule(f.rule_name),
                                 !.pc = "filter"]]
        /\ UNCHANGED <<row_lists, outside_concurrent>>

\* Lines 8262-8285 in the frame of invocation c.
InvocationFilterValid(c) ==
    LET f == invocations[c]
    IN  /\ f.pc = "filter"
        /\ invocations' =
              [invocations EXCEPT ![c] =
                  IF filter_valid(f.df) = <<>>
                  THEN [f EXCEPT !.work_df = <<>>,
                                 !.result = [df |-> EmptyFrame, error |-> NoValidDataError],
                                 !.pc = "done"]
                  ELSE [f EXCEPT !.work_df = filter_valid(f.df),
                                 !.pc = "group"]]
        /\ UNCHANGED <<row_lists, outside_concurrent>>

\* Lines 8287-8311 in the frame of invocation c: the list of result rows is
\* created here.
InvocationGroupRows(c) ==
    LET f == invocations[c]
        cols == grouping_cols_of(f.df.columns)
        work == with_group_col(f.work_df, f.df.columns)
    IN  /\ f.pc = "group"
        /\ invocations' =
              [invocations EXCEPT ![c] =
                  [f EXCEPT !.grouping_cols = cols,
                            !.work_df = work,
                            !.approved_budget_rows = new_list(c),
                            !.grouped = groupby(work, cols),
                            !.pc = "loop"]]
        /\ row_lists' = (new_list(c) :> <<>>) @@ row_lists
        /\ UNCHANGED outside_concurrent

\* Lines 8313-8425 in the frame of invocation c: the rows of one group are
\* appended to the list the frame refers to.
InvocationProcessGroup(c) ==
    LET f == invocations[c]
    IN  /\ f.pc = "loop"
        /\ f.grouped # <<>>
        /\ invocations' = [invocations EXCEPT ![c] = [f EXCEPT !.grouped = Tail(f.grouped)]]
        /\ row_lists' =
              [row_lists EXCEPT ![f.approved_budget_rows] =
                  @ \o group_rows(f.grouped[1].key, f.grouped[1].df,
                                  f.grouping_cols, f.rule_name)]
        /\ UNCHANGED outside_concurrent

\* Lines 8427-8433 in the frame of invocation c.
InvocationReturn(c) ==
    LET f == invocations[c]
        rows == row_lists[f.approved_budget_rows]
    IN  /\ f.pc = "loop"
        /\ f.grouped = <<>>
        /\ invocations' =
              [invocations EXCEPT ![c] =
                  [f EXCEPT !.result = IF rows = <<>>
                                       THEN [df |-> EmptyFrame, error |-> NoRowsError]
                                       ELSE [df |-> rows, error |-> None],
                            !.pc = "done"]]
        /\ UNCHANGED <<row_lists, outside_concurrent>>

ConcurrentNext ==
    \E c \in Invocations :
        \/ InvocationCheckColumns(c)
        \/ InvocationFilterValid(c)
        \/ InvocationGroupRows(c)
        \/ InvocationProcessGroup(c)
        \/ InvocationReturn(c)

ConcurrentSpec == ConcurrentInit /\ [][ConcurrentNext]_vars

\* C21: invocations share no mutable state: however the steps of two
\* invocations on their own input snapshots interleave, each returns exactly
\* the result it returns when it runs alone.
C21_InterleavedAsAlone ==
    pc = "idle" =>
        \A c \in Invocations :
            invocations[c].pc = "done" =>
                invocations[c].result
                    = calculate_approved_budget(invocations[c].df,
                                                invocations[c].requested_rule)

\* Both invocations have returned rows, different ones, and the first has
\* appended the rows of two groups in two steps.
C21_Witness ==
    /\ pc = "idle"
    /\ \A c \in Invocations : invocations[c].pc = "done"
    /\ invocations[1].result.df # <<>>
    /\ invocations[2].result.df # <<>>
    /\ invocations[1].result # invocations[2].result
    /\ Len(invocations[1].result.df) >= 3

-----------------------------------------------------------------------------
(* Properties of the result table *)

\* The grouping values of a result row.
RowKey(r) == [col \in DOMAIN r \ {"month", "approved budget", "budget plan", "rule_name"} |-> r[col]]

\* C22: in the result table the rows of one group are contiguous and in
\* strictly increasing month order, so that there is at most one row for a
\* group key and a month.
C22_GroupRowsContiguousAscending ==
    (pc = "done" /\ result.error = None) =>
        \A i, j \in 1..Len(result.df) :
            (i < j /\ RowKey(result.df[i]) = RowKey(result.df[j])) =>
                /\ MonthIdx(result.df[i]["month"]) < MonthIdx(result.df[j]["month"])
                /\ \A k \in i..j : RowKey(result.df[k]) = RowKey(result.df[i])

\* A result with the rows of two groups, one of them with two rows or more.
C22_Witness ==
    /\ pc = "done"
    /\ result.error = None
    /\ \E i, j, k \in 1..Len(result.df) :
          /\ i < j
          /\ RowKey(result.df[i]) = RowKey(result.df[j])
          /\ RowKey(result.df[k]) # RowKey(result.df[i])

\* A common denominator of the approved budgets of the group processed last.
GroupDenominator == 100 * (IF Len(months) > 2 THEN Len(months) - 2 ELSE 1)

\* The sum of the approved budgets of the rows of the group processed last, in
\* units of 1 / GroupDenominator.
RECURSIVE SumApproved(_)
SumApproved(rows) ==
    IF rows = <<>> THEN 0
    ELSE rows[1]["approved budget"].num
             * (GroupDenominator \div rows[1]["approved budget"].den)
         + SumApproved(Tail(rows))

\* C23: for every group the sum of allocatedBudget over its rows never exceeds
\* the sum of budgetPlan over its valid members, and it equals the task's
\* budgetPlan when the group has exactly one member, whatever the length of
\* its span.
C23_AllocationsWithinBudget ==
    Processed =>
        /\ SumApproved(RowsOfGroup) <= sum_budget(group_df) * GroupDenominator
        /\ Len(group_df) = 1 =>
              SumApproved(RowsOfGroup) = group_df[1]["budget plan"].num * GroupDenominator

\* The sums when no start of the group is later in the day than an end.
C23_WholeDays ==
    (/\ Processed
     /\ \A i, j \in 1..Len(group_df) :
           group_df[i]["plan start"].hour <= group_df[j]["plan end"].hour) =>
        /\ SumApproved(RowsOfGroup) <= sum_budget(group_df) * GroupDenominator
        /\ Len(group_df) = 1 =>
              SumApproved(RowsOfGroup) = group_df[1]["budget plan"].num * GroupDenominator

\* The sum of a group never exceeds the budgets of its members.
C23_NeverExceeds ==
    Processed => SumApproved(RowsOfGroup) <= sum_budget(group_df) * GroupDenominator

-----------------------------------------------------------------------------
(* The forecast dashboard: dashboard_forecast_budget *)

(***************************************************************************)
(* One step is one run of the dashboard script by Streamlit: a plain       *)
(* render, a change of the selected project, a submission of the edit      *)
(* form (its run ends in st.rerun(), so the step includes the run that     *)
(* follows), or a render after the application loaded other data.          *)
(* st.session_state outlives the runs and the reloads.  It holds, for each *)
(* project, the key forecast_edited_data_<project> and the key             *)
(* forecast_edit_table_<project>.  The fields of the form keep their state *)
(* under the keys plan_start_<idx>, plan_end_<idx> and budget_<idx>, where *)
(* idx is the index label of the row in the edit table.  Streamlit drops   *)
(* the state of a field that a run does not render.  Whether a field that  *)
(* is rendered under a known key with another default keeps its state is a *)
(* property of the installed Streamlit: keyed_identity is TRUE when the    *)
(* key alone identifies a field, FALSE when the default is part of the     *)
(* identity.  The columns of the edit table 'Zadacha', 'Razdel',           *)
(* 'Plan. nachalo', 'Plan. okonchanie' and 'Planovyj byudzhet' are the     *)
(* fields task, section, start, end and budget.                            *)
(***************************************************************************)

MaxReloads == 1

ProjectNames == {"P1", "P2"}

\* The selection before the first run.
NotSelected == "not selected"

\* Timestamp.date()
date(t) == [year |-> t.year, month |-> t.month, day |-> t.day]

\* pd.to_datetime(..., errors="coerce") of a datetime.date or of None
date_to_datetime(x) == IF x = None THEN NaT ELSE Ts(x.year, x.month, x.day, 0)

\* sorted(df["project name"].dropna().unique().tolist())
projects(d) ==
    SelectSeq(Collation,
              LAMBDA p : \E i \in 1..Len(d.rows) : d.rows[i]["project name"] = p)

\* st.selectbox under a key: the kept choice when it is still an option.
selectbox(options, current) ==
    IF current \in Range(options) THEN current ELSE options[1]

\* The rows of the selected project with the index labels they have in df.
project_df(d, sel) ==
    LET keep == SelectSeq([i \in 1..Len(d.rows) |-> i],
                          LAMBDA i : d.rows[i]["project name"] = sel)
    IN  [columns |-> d.columns,
         rows    |-> [k \in 1..Len(keep) |-> d.rows[keep[k]]],
         index   |-> [k \in 1..Len(keep) |-> keep[k] - 1]]

dashboard_required_cols == <<"budget plan", "plan start", "plan end", "task name">>

edit_required_cols == <<"task name", "section", "plan start", "plan end", "budget plan">>

\* The date shown for a cell: x.date() if pd.notna(x) else None
edit_date(c) == IF to_datetime(c) = NaT THEN None ELSE date(to_datetime(c))

edit_row(r) ==
    [task    |-> r["task name"],
     section |-> r["section"],
     start   |-> edit_date(r["plan start"]),
     end     |-> edit_date(r["plan end"]),
     budget  |-> to_numeric(r["budget plan"])]

\* The edit table made on the first complete render of a project; it keeps
\* the index labels of project_df.
new_edit_table(pdf) ==
    [index |-> pdf.index, rows |-> [k \in 1..Len(pdf.rows) |-> edit_row(pdf.rows[k])]]

\* The default of the budget field.
budget_value(b) == IF b = NaN THEN Num(0) ELSE b

\* What a field returns: its kept state when Streamlit takes it for the field
\* of the last run, its default otherwise.
widget_value(ws, key, default, keyed) ==
    IF key \in DOMAIN ws /\ (keyed \/ ws[key].default = default)
    THEN ws[key].value
    ELSE default

field_default(row, field) ==
    CASE field = "plan_start" -> row.start
      [] field = "plan_end"   -> row.end
      [] field = "budget"     -> budget_value(row.budget)

form_fields == {"plan_start", "plan_end", "budget"}

\* The row that the form appends to edited_data for row k of the edit table.
form_row(table, k, ws, keyed) ==
    LET idx == table.index[k]
        row == table.rows[k]
    IN  [task    |-> row.task,
         section |-> row.section,
         start   |-> widget_value(ws, <<"plan_start", idx>>, row.start, keyed),
         end     |-> widget_value(ws, <<"plan_end", idx>>, row.end, keyed),
         budget  |-> widget_value(ws, <<"budget", idx>>, budget_value(row.budget), keyed)]

\* pd.DataFrame(edited_data): the rows of the form under a fresh RangeIndex.
form_table(table, ws, keyed) ==
    [index |-> [k \in 1..Len(table.rows) |-> k - 1],
     rows  |-> [k \in 1..Len(table.rows) |-> form_row(table, k, ws, keyed)]]

\* The state of the fields after a run that rendered the form.
rendered(table, ws, keyed) ==
    [key \in {<<f, table.index[k]>> : f \in form_fields, k \in 1..Len(table.rows)} |->
        LET k == CHOOSE j \in 1..Len(table.rows) : table.index[j] = key[2]
            default == field_default(table.rows[k], key[1])
        IN  [value |-> widget_value(ws, key, default, keyed), default |-> default]]

\* updated_data: the edited data under a fresh index, with the dates and the
\* budgets of the edit table when both have as many rows.
apply_edits(ed, table) ==
    IF Len(ed.rows) = Len(table.rows)
    THEN [columns |-> ed.columns,
          rows    |-> [k \in 1..Len(ed.rows) |->
                         [col \in ed.columns |->
                             CASE col = "plan start"  -> date_to_datetime(table.rows[k].start)
                               [] col = "plan end"    -> date_to_datetime(table.rows[k].end)
                               [] col = "budget plan" -> to_numeric(table.rows[k].budget)
                               [] OTHER -> ed.rows[k][col]]],
          index   |-> [k \in 1..Len(ed.rows) |-> k - 1]]
    ELSE [ed EXCEPT !.index = [k \in 1..Len(ed.rows) |-> k - 1]]

\* A DataFrame as the budget functions take it.
frame(t) == [columns |-> t.columns, rows |-> t.rows]

\* A run that returns before the form: nothing is shown, no field is rendered.
early_return(sel, ss) ==
    [selected_project |-> sel, session_state |-> ss, widget_state |-> <<>>,
     forecast_input |-> None, forecast_shown |-> None, rerun |-> FALSE]

\* One run of the script on the table d.  submitted tells that the run was
\* started by the submit button of the form.
dashboard_forecast_budget(d, sel0, ss, ws, keyed, submitted) ==
    IF "project name" \notin d.columns \/ projects(d) = <<>>
    THEN early_return(sel0, ss)
    ELSE
    LET sel == selectbox(projects(d), sel0)
        pdf == project_df(d, sel)
    IN
    IF pdf.rows = <<>> \/ \E i \in 1..Len(dashboard_required_cols) :
                              dashboard_required_cols[i] \notin pdf.columns
    THEN early_return(sel, ss)
    ELSE
    LET ss1 == IF ss[sel].edited_data = None
               THEN [ss EXCEPT ![sel].edited_data = pdf]
               ELSE ss
    IN
    IF ss1[sel].edit_table = None /\ ~(Range(edit_required_cols) \subseteq pdf.columns)
    THEN early_return(sel, ss1)
    ELSE
    LET ss2 == IF ss1[sel].edit_table = None
               THEN [ss1 EXCEPT ![sel].edit_table = new_edit_table(pdf)]
               ELSE ss1
        table == ss2[sel].edit_table
    IN
    IF table.rows = <<>>
    THEN early_return(sel, ss2)
    ELSE
    IF submitted
    THEN [selected_project |-> sel,
          session_state    |-> [ss2 EXCEPT ![sel].edit_table = form_table(table, ws, keyed)],
          widget_state     |-> rendered(table, ws, keyed),
          forecast_input   |-> None,
          forecast_shown   |-> None,
          rerun            |-> TRUE]
    ELSE
    LET updated_data == apply_edits(ss2[sel].edited_data, table)
        ss3 == IF Len(ss2[sel].edited_data.rows) = Len(table.rows)
               THEN [ss2 EXCEPT ![sel].edited_data = updated_data]
               ELSE ss2
    IN  [selected_project |-> sel,
         session_state    |-> ss3,
         widget_state     |-> rendered(table, ws, keyed),
         forecast_input   |-> frame(updated_data),
         forecast_shown   |-> calculate_forecast_budget(frame(d), frame(updated_data), "default"),
         rerun            |-> FALSE]

\* A run and, when it ends in st.rerun(), the run that follows.
script_run(d, sel0, ss, ws, keyed, submitted) ==
    LET first == dashboard_forecast_budget(d, sel0, ss, ws, keyed, submitted)
    IN  IF first.rerun
        THEN dashboard_forecast_budget(d, first.selected_project, first.session_state,
                                       first.widget_state, keyed, FALSE)
        ELSE first

\* The loaded tables: one task of P1 and one of P2 with every column, and a
\* table without the section column in which P1 has two tasks.
FullData ==
    [columns |-> all_cols,
     rows    |-> <<Row("P1", "S1", "T1", Ts(2025, 1, 15, 0), Ts(2025, 2, 15, 0), Num(5)),
                   Row("P2", "S1", "T1", Ts(2024, 12, 15, 0), Ts(2025, 1, 31, 0), Num(3))>>]

NoSectionData ==
    [columns |-> all_cols \ {"section"},
     rows    |-> [i \in 1..3 |->
                    Restrict(<<Row("P1", "S1", "T1", Ts(2025, 1, 15, 0), Ts(2025, 2, 15, 0), Num(5)),
                               Row("P1", "S1", "T2", Ts(2025, 1, 15, 0), Ts(2025, 2, 15, 0), Num(5)),
                               Row("P2", "S1", "T1", Ts(2024, 12, 15, 0), Ts(2025, 1, 31, 0),
                                   Num(3))>>[i],
                             all_cols \ {"section"})]]

DashboardData == {FullData, NoSectionData}

\* What the user types into a field of the form of a project.
Typed ==
    [p \in ProjectNames |->
        IF p = "P1"
        THEN [plan_end |-> date(Ts(2025, 3, 15, 0)), budget |-> Num(7)]
        ELSE [plan_end |-> date(Ts(2025, 2, 28, 0)), budget |-> Num(9)]]

typed_fields == {"plan_end", "budget"}

\* The entries of one submission: nothing, or one field of the shown form.
Entries ==
    {None} \cup {[key |-> key, value |-> Typed[selected_project][key[1]]] :
                    key \in {k \in DOMAIN widget_state : k[1] \in typed_fields}}

\* The state of the fields sent with a submission.
with_entry(ws, entry) ==
    IF entry = None THEN ws ELSE [ws EXCEPT ![entry.key].value = entry.value]

DashboardInit ==
    /\ pc = "idle"
    /\ CallIdle
    /\ ConcurrentIdle
    /\ AuthIdle
    /\ data \in DashboardData
    /\ selected_project = NotSelected
    /\ session_state = [p \in ProjectNames |-> [edited_data |-> None, edit_table |-> None]]
    /\ widget_state = <<>>
    /\ keyed_identity \in BOOLEAN
    /\ forecast_input = None
    /\ forecast_shown = None
    /\ reloads = 0

\* The variables that a run of the dashboard leaves alone.
outside_dashboard == <<call_vars, concurrent_vars, auth_vars>>

\* The outcome of a run becomes the state of the session.
Shown(run) ==
    /\ selected_project' = run.selected_project
    /\ session_state' = run.session_state
    /\ widget_state' = run.widget_state
    /\ forecast_input' = run.forecast_input
    /\ forecast_shown' = run.forecast_shown
    /\ UNCHANGED <<keyed_identity, outside_dashboard>>

Render ==
    /\ data # <<>>
    /\ Shown(script_run(data, selected_project, session_state, widget_state,
                        keyed_identity, FALSE))
    /\ UNCHANGED <<data, reloads>>

SelectProject(p) ==
    /\ data # <<>>
    /\ selected_project # NotSelected
    /\ p \in Range(projects(data)) \ {selected_project}
    /\ Shown(script_run(data, p, session_state, widget_state, keyed_identity, FALSE))
    /\ UNCHANGED <<data, reloads>>

Submit(entry) ==
    /\ data # <<>>
    /\ widget_state # <<>>
    /\ Shown(script_run(data, selected_project, session_state,
                        with_entry(widget_state, entry), keyed_identity, TRUE))
    /\ UNCHANGED <<data, reloads>>

ReloadData(d) ==
    /\ data # <<>>
    /\ reloads < MaxReloads
    /\ d # data
    /\ data' = d
    /\ reloads' = reloads + 1
    /\ Shown(script_run(d, selected_project, session_state, widget_state,
                        keyed_identity, FALSE))

DashboardNext ==
    \/ Render
    \/ \E p \in ProjectNames : SelectProject(p)
    \/ \E entry \in Entries : Submit(entry)
    \/ \E d \in DashboardData : ReloadData(d)

DashboardSpec == DashboardInit /\ [][DashboardNext]_vars

\* The dates and the budgets of a table of edited data, row by row.
dates_and_budgets(t) ==
    [k \in 1..Len(t.rows) |->
        <<t.rows[k]["plan start"], t.rows[k]["plan end"], t.rows[k]["budget plan"]>>]

\* The dates and the budgets of an edit table as the forecast takes them.
edit_table_values(table) ==
    [k \in 1..Len(table.rows) |->
        <<date_to_datetime(table.rows[k].start), date_to_datetime(table.rows[k].end),
          to_numeric(table.rows[k].budget)>>]

ForecastIsShown == data # <<>> /\ selected_project # NotSelected /\ forecast_input # None

\* C24: whenever a forecast is shown, it was computed from exactly the dates
\* and the budgets that the edit table of the selected project holds.
C24_ForecastFromEditTable ==
    ForecastIsShown =>
        dates_and_budgets(forecast_input)
            = edit_table_values(session_state[selected_project].edit_table)

\* The forecast follows the edit table when the two stored tables of the
\* selected project have as many rows.
C24_SameRowCount ==
    (/\ ForecastIsShown
     /\ Len(session_state[selected_project].edited_data.rows)
          = Len(session_state[selected_project].edit_table.rows))
    => dates_and_budgets(forecast_input)
          = edit_table_values(session_state[selected_project].edit_table)

\* The end dates and the budgets that belong to a project: those of its tasks
\* in the loaded tables and those that the user types into its form.
OwnValues(p) ==
    {Typed[p].plan_end, Typed[p].budget}
    \cup UNION {UNION {{edit_date(d.rows[i]["plan end"]), d.rows[i]["budget plan"]} :
                          i \in {j \in 1..Len(d.rows) : d.rows[j]["project name"] = p}} :
                  d \in DashboardData}

StoredValues(p) ==
    LET table == session_state[p].edit_table
        ed == session_state[p].edited_data
    IN  (IF table = None THEN {}
         ELSE UNION {{table.rows[k].end, table.rows[k].budget} : k \in 1..Len(table.rows)})
        \cup
        (IF ed = None THEN {}
         ELSE UNION {{edit_date(ed.rows[k]["plan end"]), ed.rows[k]["budget plan"]} :
                        k \in 1..Len(ed.rows)})

\* C25: the dates and the budgets stored for a project are never those entered
\* or loaded for another project.
C25_EditsIsolatedPerProject ==
    data # <<>> =>
        \A p \in ProjectNames : \A q \in ProjectNames \ {p} :
            StoredValues(p) \cap OwnValues(q) = {}

\* The edits are isolated when Streamlit identifies a field by its default too.
C25_IsolatedByDefaultIdentity ==
    (data # <<>> /\ ~keyed_identity) =>
        \A p \in ProjectNames : \A q \in ProjectNames \ {p} :
            StoredValues(p) \cap OwnValues(q) = {}

-----------------------------------------------------------------------------
(* auth.py: password-reset tokens and authenticate *)

(***************************************************************************)
(* The state is the content of the tables users and password_reset_tokens  *)
(* and the clock that datetime.now() reads, counted in half hours.  In     *)
(* AuthSpec a step is one whole call of generate_reset_token,              *)
(* verify_reset_token or reset_password, and in LoginSpec one whole call   *)
(* of authenticate.  In ResetRaceSpec two callers may have a call of       *)
(* reset_password in progress, and a step is one of the two parts of such  *)
(* a call: the verification, which reads the token through a connection of *)
(* its own and closes it, and the update, which writes the password and    *)
(* marks the token through a second connection; the parts interleave with  *)
(* each other and with the calls of generate_reset_token.                  *)
(* A token is 32 characters drawn by the secrets module; the model gives   *)
(* every drawn token a number of its own, and 0 is a token never drawn.    *)
(* last_call records the last step and what it returned; consumed records  *)
(* which caller was told True for which token.                             *)
(***************************************************************************)

MaxClock == 3

MaxTokens == 2

\* timedelta(hours=1)
token_lifetime_hours == 1

Usernames == {"alice", "bob"}

\* A username that is not in the table.
UnknownUsername == "nobody"

Passwords == {"p1", "p2"}

Callers == {1, 2}

\* A returned value that is not None.
Some(x) == [value |-> x]

\* hashlib.sha256(password.encode()).hexdigest(): one digest per password.
hash_password(password) == [sha256 |-> password]

verify_password(password, password_hash) == hash_password(password) = password_hash

\* The user of a username, or None.
get_user_by_username(us, username) ==
    IF username \in DOMAIN us THEN Some(username) ELSE None

\* authenticate succeeds for a user whatever is_active says.
authenticates_inactive(us, username, password) ==
    /\ username \in DOMAIN us
    /\ verify_password(password, us[username].password_hash)

\* The test of authenticate: the user exists, is active, and the password matches.
authenticates(us, username, password) ==
    /\ username \in DOMAIN us
    /\ us[username].is_active = 1
    /\ verify_password(password, us[username].password_hash)

\* The tokens after a DELETE that removes nothing.
delete_unused_none(tokens, username) == tokens

\* DELETE FROM password_reset_tokens WHERE username = ? AND used = 0
delete_unused(tokens, username) ==
    {r \in tokens : ~(r.username = username /\ r.used = 0)}

\* INSERT INTO password_reset_tokens (username, token, expires_at); used is 0
\* and created_at the time of the insertion by the defaults of the table.
insert_token(tokens, username, token, clock) ==
    tokens \cup {[username   |-> username,
                  token      |-> token,
                  expires_at |-> clock + 2 * token_lifetime_hours,
                  used       |-> 0,
                  created_at |-> clock]}

\* A token verifies however old it is.
verify_reset_token_any_age(tokens, token, clock) ==
    IF \E r \in tokens : r.token = token /\ r.used = 0
    THEN Some((CHOOSE r \in tokens : r.token = token).username)
    ELSE None

\* A token verifies whether used or not.
verify_reset_token_used(tokens, token, clock) ==
    IF \E r \in tokens : r.token = token /\ clock < r.expires_at
    THEN Some((CHOOSE r \in tokens : r.token = token).username)
    ELSE None

\* The username of a token that is known, unused and not expired, else None.
verify_reset_token(tokens, token, clock) ==
    IF \E r \in tokens : r.token = token /\ r.used = 0 /\ clock < r.expires_at
    THEN Some((CHOOSE r \in tokens : r.token = token).username)
    ELSE None

\* UPDATE users SET password_hash = ? WHERE username = ?
set_password(us, username, new_password) ==
    IF username \in DOMAIN us
    THEN [us EXCEPT ![username].password_hash = hash_password(new_password)]
    ELSE us

\* UPDATE password_reset_tokens SET used = 1 WHERE token = ?
mark_used(tokens, token) ==
    {IF r.token = token THEN [r EXCEPT !.used = 1] ELSE r : r \in tokens}

\* The record of a step.
Call(op, caller, username, token, password, ret) ==
    [op |-> op, caller |-> caller, username |-> username, token |-> token,
     password |-> password, ret |-> ret]

NoCall == Call("none", 0, "", 0, "", None)

\* A caller with no call of reset_password in progress.
NoReset == [pc |-> "idle", token |-> 0, new_password |-> "", username |-> ""]

\* alice can log in; bob can log in when his account is active.
UsersTable(active) ==
    [u \in Usernames |->
        IF u = "alice"
        THEN [password_hash |-> hash_password("p1"), is_active |-> 1, last_login |-> None]
        ELSE [password_hash |-> hash_password("p2"), is_active |-> active,
              last_login |-> None]]

\* The tables after init_db and the creation of the two users.
TablesCreated ==
    /\ pc = "idle"
    /\ CallIdle
    /\ ConcurrentIdle
    /\ DashboardIdle
    /\ password_reset_tokens = {}
    /\ now = 0
    /\ issued = 0
    /\ last_call = NoCall
    /\ consumed = {}

AuthInit ==
    /\ TablesCreated
    /\ users = UsersTable(1)
    /\ reset_calls = <<>>

LoginInit ==
    /\ TablesCreated
    /\ users \in {UsersTable(active) : active \in {0, 1}}
    /\ reset_calls = <<>>

ResetRaceInit ==
    /\ TablesCreated
    /\ users = UsersTable(1)
    /\ reset_calls = [c \in Callers |-> NoReset]

\* The variables that a step of auth.py leaves alone.
outside_auth == <<call_vars, concurrent_vars, dashboard_vars>>

\* The clock advances by half an hour.
Tick ==
    /\ users # <<>>
    /\ now < MaxClock
    /\ now' = now + 1
    /\ last_call' = Call("tick", 0, "", 0, "", None)
    /\ UNCHANGED <<users, password_reset_tokens, issued, reset_calls, consumed, outside_auth>>

GenerateResetToken(username) ==
    /\ users # <<>>
    /\ IF get_user_by_username(users, username) = None
       THEN /\ last_call' = Call("generate_reset_token", 0, username, 0, "", None)
            /\ UNCHANGED <<password_reset_tokens, issued>>
       ELSE /\ issued < MaxTokens
            /\ issued' = issued + 1
            /\ password_reset_tokens' =
                   insert_token(delete_unused(password_reset_tokens, username),
                                username, issued + 1, now)
            /\ last_call' = Call("generate_reset_token", 0, username, 0, "",
                                 Some(issued + 1))
    /\ UNCHANGED <<users, now, reset_calls, consumed, outside_auth>>

VerifyResetToken(token) ==
    /\ users # <<>>
    /\ last_call' = Call("verify_reset_token", 0, "", token, "",
                         verify_reset_token(password_reset_tokens, token, now))
    /\ UNCHANGED <<users, password_reset_tokens, now, issued, reset_calls, consumed,
                   outside_auth>>

\* A whole call of reset_password.
ResetPassword(token, new_password) ==
    /\ users # <<>>
    /\ reset_calls = <<>>
    /\ LET username == verify_reset_token(password_reset_tokens, token, now)
       IN  IF username = None
           THEN /\ last_call' = Call("reset_password", 0, "", token, new_password,
                                     Some(FALSE))
                /\ UNCHANGED <<users, password_reset_tokens, consumed>>
           ELSE /\ users' = set_password(users, username.value, new_password)
                /\ password_reset_tokens' = mark_used(password_reset_tokens, token)
                /\ consumed' = consumed \cup {<<token, 0>>}
                /\ last_call' = Call("reset_password", 0, username.value, token,
                                     new_password, Some(TRUE))
    /\ UNCHANGED <<now, issued, reset_calls, outside_auth>>

\* reset_password up to the return of verify_reset_token.
ResetPasswordVerify(c, token, new_password) ==
    /\ users # <<>>
    /\ reset_calls # <<>>
    /\ reset_calls[c].pc = "idle"
    /\ LET username == verify_reset_token(password_reset_tokens, token, now)
       IN  IF username = None
           THEN /\ last_call' = Call("reset_password", c, "", token, new_password,
                                     Some(FALSE))
                /\ UNCHANGED reset_calls
           ELSE /\ last_call' = Call("reset_password", c, username.value, token,
                                     new_password, None)
                /\ reset_calls' = [reset_calls EXCEPT ![c] =
                                     [pc |-> "verified", token |-> token,
                                      new_password |-> new_password,
                                      username |-> username.value]]
    /\ UNCHANGED <<users, password_reset_tokens, now, issued, consumed, outside_auth>>

\* reset_password from the second connection to the return.
ResetPasswordUpdate(c) ==
    /\ users # <<>>
    /\ reset_calls # <<>>
    /\ reset_calls[c].pc = "verified"
    /\ users' = set_password(users, reset_calls[c].username, reset_calls[c].new_password)
    /\ password_reset_tokens' = mark_used(password_reset_tokens, reset_calls[c].token)
    /\ consumed' = consumed \cup {<<reset_calls[c].token, c>>}
    /\ last_call' = Call("reset_password", c, reset_calls[c].username, reset_calls[c].token,
                         reset_calls[c].new_password, Some(TRUE))
    /\ reset_calls' = [reset_calls EXCEPT ![c] = NoReset]
    /\ UNCHANGED <<now, issued, outside_auth>>

Authenticate(username, password) ==
    /\ users # <<>>
    /\ IF authenticates(users, username, password)
       THEN /\ users' = [users EXCEPT ![username].last_login = Some(now)]
            /\ last_call' = Call("authenticate", 0, username, 0, password,
                                 Some([ok |-> TRUE, user |-> Some(username)]))
       ELSE /\ users' = users
            /\ last_call' = Call("authenticate", 0, username, 0, password,
                                 Some([ok |-> FALSE, user |-> None]))
    /\ UNCHANGED <<password_reset_tokens, now, issued, reset_calls, consumed, outside_auth>>

AuthNext ==
    \/ Tick
    \/ \E username \in Usernames \cup {UnknownUsername} : GenerateResetToken(username)
    \/ \E token \in 0..MaxTokens : VerifyResetToken(token)
    \/ \E token \in 0..MaxTokens, new_password \in Passwords :
          ResetPassword(token, new_password)

AuthSpec == AuthInit /\ [][AuthNext]_vars

LoginNext ==
    \/ Tick
    \/ \E username \in Usernames \cup {UnknownUsername}, password \in Passwords :
          Authenticate(username, password)

LoginSpec == LoginInit /\ [][LoginNext]_vars

ResetRaceNext ==
    \/ Tick
    \/ \E username \in Usernames : GenerateResetToken(username)
    \/ \E c \in Callers, token \in 1..MaxTokens, new_password \in Passwords :
          ResetPasswordVerify(c, token, new_password)
    \/ \E c \in Callers : ResetPasswordUpdate(c)

ResetRaceSpec == ResetRaceInit /\ [][ResetRaceNext]_vars

-----------------------------------------------------------------------------
(* Properties of the reset tokens and of authenticate *)

\* reset_password has returned True for the token.
Consumed(token) == \E k \in consumed : k[1] = token

\* C26: a token is single use: once reset_password has returned True for a
\* token, every later verify_reset_token of it returns None, and every later
\* reset_password with it returns False and leaves the users as they are.
C26_TokenSingleUse ==
    [][/\ (last_call'.op = "verify_reset_token" /\ Consumed(last_call'.token))
            => last_call'.ret = None
       /\ (last_call'.op = "reset_password" /\ Consumed(last_call'.token))
            => (last_call'.ret = Some(FALSE) /\ users' = users)]_vars

\* A second reset_password with a consumed token that has not expired and
\* with another password than the one set has been refused.
C26_Witness ==
    /\ users # <<>>
    /\ last_call.op = "reset_password"
    /\ last_call.ret = Some(FALSE)
    /\ Consumed(last_call.token)
    /\ \E r \in password_reset_tokens :
          /\ r.token = last_call.token
          /\ now < r.expires_at
          /\ users[r.username].password_hash # hash_password(last_call.password)

\* No two callers are told True for one token.
C27_AtMostOneSucceeds ==
    \A k \in consumed : \A l \in consumed : k[1] = l[1] => k[2] = l[2]

\* The token is in no record.
UnknownToken(token) == \A r \in password_reset_tokens : r.token # token

UsedToken(token) == \E r \in password_reset_tokens : r.token = token /\ r.used = 1

\* The record of the token was created an hour (two half hours) ago or earlier.
ExpiredToken(token) ==
    \E r \in password_reset_tokens : r.token = token /\ now - r.created_at >= 2

\* C28: reset_password with a token that is unknown, used or expired returns
\* False and changes no password hash and no token record.
C28_InvalidTokenRefused ==
    [][(/\ last_call'.op = "reset_password"
        /\ \/ UnknownToken(last_call'.token)
           \/ UsedToken(last_call'.token)
           \/ ExpiredToken(last_call'.token))
       => (/\ last_call'.ret = Some(FALSE)
           /\ users' = users
           /\ password_reset_tokens' = password_reset_tokens)]_vars

\* reset_password has been refused for an unused token exactly one hour old.
C28_Witness ==
    /\ users # <<>>
    /\ last_call.op = "reset_password"
    /\ last_call.ret = Some(FALSE)
    /\ \E r \in password_reset_tokens :
          r.token = last_call.token /\ r.used = 0 /\ now - r.created_at = 2

UnusedTokens(tokens, username) == {r \in tokens : r.username = username /\ r.used = 0}

\* C29: every user has at most one unused token; generate_reset_token for a
\* user makes the user's earlier unused tokens fail to verify and keeps the
\* records of the other users; for an unknown username it returns None and
\* creates nothing.
C29_OneUnusedTokenPerUser ==
    [][/\ \A u \in Usernames : Cardinality(UnusedTokens(password_reset_tokens', u)) <= 1
       /\ last_call'.op = "generate_reset_token" =>
            IF last_call'.username \notin DOMAIN users
            THEN /\ last_call'.ret = None
                 /\ password_reset_tokens' = password_reset_tokens
            ELSE /\ last_call'.ret # None
                 /\ \A r \in password_reset_tokens :
                       /\ (r.username = last_call'.username /\ r.used = 0)
                            => verify_reset_token(password_reset_tokens', r.token, now') = None
                       /\ r.username # last_call'.username
                            => r \in password_reset_tokens']_vars

\* A second token has been generated for a user whose first was unused: only
\* the second is in the table.
C29_Witness ==
    /\ users # <<>>
    /\ last_call.op = "generate_reset_token"
    /\ last_call.ret = Some(issued)
    /\ issued > 1
    /\ \A r \in password_reset_tokens : r.token = issued /\ r.used = 0

\* C30: authenticate succeeds, with the user's record and a new last_login,
\* exactly when the user exists, is active and the password hashes to the
\* stored hash; otherwise it returns (False, None) and changes nothing.
C30_AuthenticateOnlyActiveMatching ==
    [][last_call'.op = "authenticate" =>
         IF /\ last_call'.username \in DOMAIN users
            /\ users[last_call'.username].is_active = 1
            /\ users[last_call'.username].password_hash = hash_password(last_call'.password)
         THEN /\ last_call'.ret = Some([ok |-> TRUE, user |-> Some(last_call'.username)])
              /\ users' = [users EXCEPT ![last_call'.username].last_login = Some(now)]
         ELSE /\ last_call'.ret = Some([ok |-> FALSE, user |-> None])
              /\ users' = users]_vars

\* A deactivated user has been refused with the right password.
C30_Witness ==
    /\ users # <<>>
    /\ last_call.op = "authenticate"
    /\ last_call.username \in DOMAIN users
    /\ users[last_call.username].is_active = 0
    /\ users[last_call.username].password_hash = hash_password(last_call.password)
    /\ last_call.ret = Some([ok |-> FALSE, user |-> None])

====
